---- MODULE Spec2Model ----
(***************************************************************************)
(* Session continuity and message exchange of the chat client              *)
(* (frontend/src/App.jsx, frontend/src/services/api.js).                   *)
(*                                                                         *)
(* React state hooks are the variables; every event handler is one action; *)
(* an async handler is split at its await into the step that issues the    *)
(* request and the step that runs when the request resolves.               *)
(***************************************************************************)
EXTENDS Integers, Sequences, FiniteSets, TLC

\* ---------------------------------------------------------------- bounds
MaxSends   == 2     \* accepted submits per run
MaxClock   == 3     \* last clock reading at which a confirm dialog opens
MaxHistory == 2     \* longest history the server returns

\* ------------------------------------------------------------- constants
NULL == <<>>        \* JavaScript null (no session id)

Suffixes == {"p", "q"}                \* Math.random().toString(36).substr(2, 9)
Whitespace == {" "}
Texts == {<<>>, <<" ">>, <<" ", "a">>}   \* values of the input box

VARIABLES
  messages,          \* useState([])      transcript
  inputMessage,      \* useState('')      input buffer
  isLoading,         \* useState(false)   in-flight flag
  showResumeModal,   \* useState(false)   resume prompt
  resumeSessionId,   \* useState(null)    candidate id
  sessionId,         \* useState(null)    active session id
  localStorage,      \* localStorage['chat_session_id']
  mounted,           \* the initial-load effect has run
  now,               \* Date.now()
  sendInFlight,      \* POST /chat/message requests awaiting a reply
  historyInFlight,   \* GET /chat/<id>/history requests awaiting a reply
  origin,            \* history: for each transcript entry, the session it was made for and its kind
  answered,          \* history: ordinals of the submits answered so far, in order of arrival
  nSubmitted,        \* history: number of submits accepted so far
  activated,         \* history: every id that has been the active session id
  failedFetches,     \* history: how getSessionHistory completed each time its request failed
  nFetches,          \* history: number of history requests issued so far
  last               \* history: the handler step taken last

vars == <<messages, inputMessage, isLoading, showResumeModal, resumeSessionId,
          sessionId, localStorage, mounted, now, sendInFlight, historyInFlight,
          origin, answered, nSubmitted, activated, failedFetches, nFetches, last>>

\* ------------------------------------------------------------ pure parts

\* `session-${Date.now()}-${Math.random().toString(36).substr(2, 9)}`
NewId(t, r) == <<"session", t, r>>

\* ids written by an earlier page load: their timestamp precedes this load
SavedIds == {NewId(0, "p")}

RECURSIVE TrimStart(_)
TrimStart(s) ==
  IF s = <<>> THEN s
  ELSE IF Head(s) \in Whitespace THEN TrimStart(Tail(s)) ELSE s

RECURSIVE TrimEnd(_)
TrimEnd(s) ==
  IF s = <<>> THEN s
  ELSE IF s[Len(s)] \in Whitespace THEN TrimEnd(SubSeq(s, 1, Len(s) - 1)) ELSE s

\* String.prototype.trim
Trim(s) == TrimEnd(TrimStart(s))

WelcomeText == "Merhaba! ... isim ve soyisminizi ogrenebilir miyim?"
ApologyText == "Uzgunum, bir hata olustu. Lutfen tekrar deneyin."

WelcomeMessage(t) == [role |-> "assistant", content |-> WelcomeText, timestamp |-> t]

UserMessage(text, t) == [role |-> "user", content |-> text, timestamp |-> t]

\* as AssistantMessage, without isComplete
AssistantMessage_noComplete(response, t) ==
  [role |-> "assistant", content |-> response.response, timestamp |-> t,
   type |-> response.type, isComplete |-> "undefined"]

AssistantMessage(response, t) ==
  [role |-> "assistant", content |-> response.response, timestamp |-> t,
   type |-> response.type, isComplete |-> response.is_complete]

ErrorMessage(t) ==
  [role |-> "assistant", content |-> ApologyText, timestamp |-> t, isError |-> TRUE]

\* as NormalizeRole, mapping every role other than 'user' to 'assistant'
NormalizeRole_nonUser(role) == IF role = "user" THEN role ELSE "assistant"

\* role: msg.role === 'ai' ? 'assistant' : msg.role
NormalizeRole(role) == IF role = "ai" THEN "assistant" ELSE role

RestoreMessage(msg) ==
  [role |-> NormalizeRole(msg.role), content |-> msg.content, timestamp |-> msg.timestamp]

\* res.data.messages.map(...)
RestoredMessages(msgs) == [i \in 1..Len(msgs) |-> RestoreMessage(msgs[i])]

\* ------------------------------------------------- the server's answers

HistoryRoles == {"user", "ai", "system"}

ServerMessages == {[role |-> r, content |-> "h", timestamp |-> 0] : r \in HistoryRoles}

RECURSIVE SeqsUpTo(_, _)
SeqsUpTo(S, n) ==
  IF n = 0 THEN {<<>>}
  ELSE LET shorter == SeqsUpTo(S, n - 1)
       IN  shorter \cup {Append(s, x) : s \in {q \in shorter : Len(q) = n - 1}, x \in S}

Histories == SeqsUpTo(ServerMessages, MaxHistory)

\* bodies of GET /chat/<id>/history
HistoryBodies ==
  {[found |-> FALSE], [found |-> TRUE], [found |-> TRUE, data |-> [session |-> "s"]]}
  \cup {[found |-> TRUE, messages |-> h] : h \in Histories \ {<<>>}}
  \cup {[found |-> TRUE, data |-> [messages |-> h]] : h \in Histories}

HttpFailure == [ok |-> FALSE]
HistoryOutcomes == {HttpFailure} \cup {[ok |-> TRUE, data |-> b] : b \in HistoryBodies}

\* bodies of POST /chat/message
Replies ==
  {[response |-> "r", type |-> "undefined", is_complete |-> "undefined"],
   [response |-> "r", type |-> "analysis", is_complete |-> "true"]}

SendOutcomes == {HttpFailure} \cup {[ok |-> TRUE, data |-> b] : b \in Replies}

\* how a call completes: it returns a value or throws
Returned(value) == [threw |-> FALSE, value |-> value]
Thrown == [threw |-> TRUE]

\* as getSessionHistory, without the try/catch: the axios rejection reaches the caller
getSessionHistory_rethrows(outcome) ==
  IF outcome.ok THEN Returned(outcome.data) ELSE Thrown

\* chatAPI.getSessionHistory: a failed request is caught and turned into {found: false}
getSessionHistory(outcome) ==
  IF outcome.ok THEN Returned(outcome.data) ELSE Returned([found |-> FALSE])

\* the try block of handleResumeSession throws: res.data is undefined when read
ResumeThrows(res) == res.found /\ "data" \notin DOMAIN res

\* as ResumeFound, without the length test
ResumeFound_noLength(res) ==
  /\ res.found
  /\ "data" \in DOMAIN res
  /\ "messages" \in DOMAIN res.data

\* res.found && res.data.messages && res.data.messages.length > 0
ResumeFound(res) ==
  /\ res.found
  /\ "data" \in DOMAIN res
  /\ "messages" \in DOMAIN res.data
  /\ Len(res.data.messages) > 0

\* ------------------------------------------------------------------ Init

Init ==
  /\ messages = <<>>
  /\ inputMessage = <<>>
  /\ isLoading = FALSE
  /\ showResumeModal = FALSE
  /\ resumeSessionId = NULL
  /\ sessionId = NULL
  /\ localStorage \in {NULL} \cup SavedIds
  /\ mounted = FALSE
  /\ now = 1
  /\ sendInFlight = {}
  /\ historyInFlight = {}
  /\ origin = <<>>
  /\ answered = <<>>
  /\ nSubmitted = 0
  /\ activated = {}
  /\ failedFetches = {}
  /\ nFetches = 0
  /\ last = "init"

\* --------------------------------------------------------------- actions

\* as startNewSession, keeping an id that is already stored
startNewSession_reuse(t, r) ==
  LET id == IF localStorage # NULL THEN localStorage ELSE NewId(t, r) IN
  /\ sessionId' = id
  /\ localStorage' = id
  /\ messages' = <<WelcomeMessage(t)>>
  /\ showResumeModal' = FALSE
  /\ origin' = <<[sid |-> id, kind |-> "seed"]>>
  /\ activated' = activated \cup {id}

\* as startNewSession, without localStorage.setItem
startNewSession_noPersist(t, r) ==
  /\ sessionId' = NewId(t, r)
  /\ localStorage' = localStorage
  /\ messages' = <<WelcomeMessage(t)>>
  /\ showResumeModal' = FALSE
  /\ origin' = <<[sid |-> NewId(t, r), kind |-> "seed"]>>
  /\ activated' = activated \cup {NewId(t, r)}

\* startNewSession(), called at clock reading t with random suffix r
startNewSession(t, r) ==
  /\ sessionId' = NewId(t, r)
  /\ localStorage' = NewId(t, r)
  /\ messages' = <<WelcomeMessage(t)>>
  /\ showResumeModal' = FALSE
  /\ origin' = <<[sid |-> NewId(t, r), kind |-> "seed"]>>
  /\ activated' = activated \cup {NewId(t, r)}

\* as checkSavedSession, testing savedId !== undefined: the prompt is shown for null too
checkSavedSession_alwaysPrompt ==
  /\ ~mounted
  /\ mounted' = TRUE
  /\ resumeSessionId' = localStorage
  /\ showResumeModal' = TRUE
  /\ last' = "checkSavedSession_prompt"
  /\ UNCHANGED <<sessionId, localStorage, messages, origin, activated>>
  /\ UNCHANGED <<inputMessage, isLoading, now, sendInFlight, historyInFlight,
                 answered, nSubmitted, failedFetches, nFetches>>

\* as checkSavedSession, making the saved id the active one before the user has chosen
checkSavedSession_eager ==
  /\ ~mounted
  /\ mounted' = TRUE
  /\ IF localStorage # NULL
     THEN /\ resumeSessionId' = localStorage
          /\ showResumeModal' = TRUE
          /\ sessionId' = localStorage
          /\ activated' = activated \cup {localStorage}
          /\ last' = "checkSavedSession_prompt"
          /\ UNCHANGED <<localStorage, messages, origin>>
     ELSE /\ \E r \in Suffixes : startNewSession(now, r)
          /\ last' = "checkSavedSession_new"
          /\ UNCHANGED resumeSessionId
  /\ UNCHANGED <<inputMessage, isLoading, now, sendInFlight, historyInFlight,
                 answered, nSubmitted, failedFetches, nFetches>>

\* as checkSavedSession, without the call of startNewSession when nothing is saved
checkSavedSession_noStart ==
  /\ ~mounted
  /\ mounted' = TRUE
  /\ IF localStorage # NULL
     THEN /\ resumeSessionId' = localStorage
          /\ showResumeModal' = TRUE
          /\ last' = "checkSavedSession_prompt"
     ELSE /\ last' = "checkSavedSession_new"
          /\ UNCHANGED <<resumeSessionId, showResumeModal>>
  /\ UNCHANGED <<sessionId, localStorage, messages, origin, activated>>
  /\ UNCHANGED <<inputMessage, isLoading, now, sendInFlight, historyInFlight,
                 answered, nSubmitted, failedFetches, nFetches>>

\* the initial-load effect
checkSavedSession ==
  /\ ~mounted
  /\ mounted' = TRUE
  /\ IF localStorage # NULL
     THEN /\ resumeSessionId' = localStorage
          /\ showResumeModal' = TRUE
          /\ last' = "checkSavedSession_prompt"
          /\ UNCHANGED <<sessionId, localStorage, messages, origin, activated>>
     ELSE /\ \E r \in Suffixes : startNewSession(now, r)
          /\ last' = "checkSavedSession_new"
          /\ UNCHANGED resumeSessionId
  /\ UNCHANGED <<inputMessage, isLoading, now, sendInFlight, historyInFlight,
                 answered, nSubmitted, failedFetches, nFetches>>

\* as handleResumeSession, removing the stored id before the history is fetched
handleResumeSession_clearsSlot ==
  /\ mounted /\ showResumeModal /\ ~isLoading
  /\ IF resumeSessionId = NULL
     THEN /\ last' = "handleResumeSession_returned"
          /\ UNCHANGED <<isLoading, historyInFlight, nFetches, localStorage>>
     ELSE /\ isLoading' = TRUE
          /\ localStorage' = NULL
          /\ historyInFlight' = historyInFlight \cup {resumeSessionId}
          /\ nFetches' = nFetches + 1
          /\ last' = "handleResumeSession"
  /\ UNCHANGED <<messages, inputMessage, showResumeModal, resumeSessionId, sessionId,
                 mounted, now, sendInFlight, origin, answered,
                 nSubmitted, activated, failedFetches>>

\* as handleResumeSession, with a resume button that stays enabled while isLoading
handleResumeSession_reentrant ==
  /\ mounted /\ showResumeModal
  /\ IF resumeSessionId = NULL
     THEN /\ last' = "handleResumeSession_returned"
          /\ UNCHANGED <<isLoading, historyInFlight, nFetches>>
     ELSE /\ isLoading' = TRUE
          /\ historyInFlight' = historyInFlight \cup {resumeSessionId}
          /\ nFetches' = nFetches + 1
          /\ last' = "handleResumeSession"
  /\ UNCHANGED <<messages, inputMessage, showResumeModal, resumeSessionId, sessionId,
                 localStorage, mounted, now, sendInFlight, origin, answered,
                 nSubmitted, activated, failedFetches>>

\* handleResumeSession up to the await: the resume button is disabled while isLoading
handleResumeSession ==
  /\ mounted /\ showResumeModal /\ ~isLoading
  /\ IF resumeSessionId = NULL
     THEN /\ last' = "handleResumeSession_returned"
          /\ UNCHANGED <<isLoading, historyInFlight, nFetches>>
     ELSE /\ isLoading' = TRUE
          /\ historyInFlight' = historyInFlight \cup {resumeSessionId}
          /\ nFetches' = nFetches + 1
          /\ last' = "handleResumeSession"
  /\ UNCHANGED <<messages, inputMessage, showResumeModal, resumeSessionId, sessionId,
                 localStorage, mounted, now, sendInFlight, origin, answered,
                 nSubmitted, activated, failedFetches>>

\* as restoreSession, without setSessionId
restoreSession_noActivate(id, msgs) ==
  /\ messages' = RestoredMessages(msgs)
  /\ localStorage' = id
  /\ origin' = [i \in 1..Len(msgs) |-> [sid |-> id, kind |-> "seed"]]
  /\ UNCHANGED <<sessionId, activated>>

\* the successful branch of handleResumeSession
restoreSession(id, msgs) ==
  /\ messages' = RestoredMessages(msgs)
  /\ sessionId' = id
  /\ localStorage' = id
  /\ origin' = [i \in 1..Len(msgs) |-> [sid |-> id, kind |-> "seed"]]
  /\ activated' = activated \cup {id}

\* as resumeResolves, with setIsLoading(false) in the found branch only instead of finally
resumeResolves_noFinally(id, outcome) ==
  /\ id \in historyInFlight
  /\ historyInFlight' = historyInFlight \ {id}
  /\ LET call == getSessionHistory(outcome) IN
       /\ failedFetches' = IF outcome.ok THEN failedFetches ELSE failedFetches \cup {call}
       /\ IF call.threw \/ ResumeThrows(call.value)
          THEN /\ \E r \in Suffixes : startNewSession(now, r)
               /\ last' = "resume_caught"
               /\ UNCHANGED isLoading
          ELSE IF ResumeFound(call.value)
          THEN /\ restoreSession(id, call.value.data.messages)
               /\ last' = "resume_restored"
               /\ isLoading' = FALSE
          ELSE /\ \E r \in Suffixes : startNewSession(now, r)
               /\ last' = "resume_fallback"
               /\ UNCHANGED isLoading
  /\ showResumeModal' = FALSE
  /\ UNCHANGED <<inputMessage, resumeSessionId, mounted, now, sendInFlight,
                 answered, nSubmitted, nFetches>>

\* as resumeResolves, with try/finally and no catch: what the try block throws escapes
resumeResolves_noCatch(id, outcome) ==
  /\ id \in historyInFlight
  /\ historyInFlight' = historyInFlight \ {id}
  /\ LET call == getSessionHistory(outcome) IN
       /\ failedFetches' = IF outcome.ok THEN failedFetches ELSE failedFetches \cup {call}
       /\ IF call.threw \/ ResumeThrows(call.value)
          THEN /\ last' = "resume_escaped"
               /\ UNCHANGED <<sessionId, localStorage, messages, origin, activated>>
          ELSE IF ResumeFound(call.value)
          THEN /\ restoreSession(id, call.value.data.messages)
               /\ last' = "resume_restored"
          ELSE /\ \E r \in Suffixes : startNewSession(now, r)
               /\ last' = "resume_fallback"
  /\ isLoading' = FALSE
  /\ showResumeModal' = FALSE
  /\ UNCHANGED <<inputMessage, resumeSessionId, mounted, now, sendInFlight,
                 answered, nSubmitted, nFetches>>

\* handleResumeSession from the await on: the history request for id resolves
resumeResolves(id, outcome) ==
  /\ id \in historyInFlight
  /\ historyInFlight' = historyInFlight \ {id}
  /\ LET call == getSessionHistory(outcome) IN
       /\ failedFetches' = IF outcome.ok THEN failedFetches ELSE failedFetches \cup {call}
       /\ IF call.threw \/ ResumeThrows(call.value)
          THEN /\ \E r \in Suffixes : startNewSession(now, r)
               /\ last' = "resume_caught"
          ELSE IF ResumeFound(call.value)
          THEN /\ restoreSession(id, call.value.data.messages)
               /\ last' = "resume_restored"
          ELSE /\ \E r \in Suffixes : startNewSession(now, r)
               /\ last' = "resume_fallback"
  /\ isLoading' = FALSE
  /\ showResumeModal' = FALSE
  /\ UNCHANGED <<inputMessage, resumeSessionId, mounted, now, sendInFlight,
                 answered, nSubmitted, nFetches>>

\* as handleStartNew, without looking at the answer of window.confirm
handleStartNew_ignoresAnswer(confirmed) ==
  /\ mounted /\ showResumeModal /\ ~isLoading
  /\ IF confirmed \/ TRUE
     THEN /\ now < MaxClock
          /\ now' = now + 1
          /\ \E r \in Suffixes : startNewSession(now', r)
          /\ last' = IF confirmed THEN "handleStartNew_confirmed" ELSE "handleStartNew_declined"
     ELSE /\ last' = "handleStartNew_declined"
          /\ UNCHANGED <<now, sessionId, localStorage, messages, showResumeModal, origin,
                         activated>>
  /\ UNCHANGED <<inputMessage, isLoading, resumeSessionId, mounted, sendInFlight,
                 historyInFlight, answered, nSubmitted, failedFetches, nFetches>>

\* handleStartNew: the button of the resume prompt, disabled while isLoading
handleStartNew(confirmed) ==
  /\ mounted /\ showResumeModal /\ ~isLoading
  /\ IF confirmed
     THEN /\ now < MaxClock
          /\ now' = now + 1
          /\ \E r \in Suffixes : startNewSession(now', r)
          /\ last' = "handleStartNew_confirmed"
     ELSE /\ last' = "handleStartNew_declined"
          /\ UNCHANGED <<now, sessionId, localStorage, messages, showResumeModal, origin,
                         activated>>
  /\ UNCHANGED <<inputMessage, isLoading, resumeSessionId, mounted, sendInFlight,
                 historyInFlight, answered, nSubmitted, failedFetches, nFetches>>

\* as handleManualNewChat, with a reset that also calls setIsLoading(false)
handleManualNewChat_clearsFlag(confirmed) ==
  /\ mounted /\ ~showResumeModal
  /\ IF confirmed
     THEN /\ now < MaxClock
          /\ now' = now + 1
          /\ \E r \in Suffixes : startNewSession(now', r)
          /\ isLoading' = FALSE
          /\ last' = "handleManualNewChat_confirmed"
     ELSE /\ last' = "handleManualNewChat_declined"
          /\ UNCHANGED <<now, sessionId, localStorage, messages, showResumeModal, origin,
                         activated, isLoading>>
  /\ UNCHANGED <<inputMessage, resumeSessionId, mounted, sendInFlight,
                 historyInFlight, answered, nSubmitted, failedFetches, nFetches>>

\* handleManualNewChat: the header button, unreachable behind the resume prompt
handleManualNewChat(confirmed) ==
  /\ mounted /\ ~showResumeModal
  /\ IF confirmed
     THEN /\ now < MaxClock
          /\ now' = now + 1
          /\ \E r \in Suffixes : startNewSession(now', r)
          /\ last' = "handleManualNewChat_confirmed"
     ELSE /\ last' = "handleManualNewChat_declined"
          /\ UNCHANGED <<now, sessionId, localStorage, messages, showResumeModal, origin,
                         activated>>
  /\ UNCHANGED <<inputMessage, isLoading, resumeSessionId, mounted, sendInFlight,
                 historyInFlight, answered, nSubmitted, failedFetches, nFetches>>

\* as inputDisabled, without the resume prompt
inputDisabled_loadingOnly == isLoading

\* the input box: disabled={isLoading || showResumeModal}
inputDisabled == isLoading \/ showResumeModal

\* onChange of the input box; a disabled input takes no typing
onChange(value) ==
  /\ mounted /\ ~inputDisabled
  /\ value # inputMessage
  /\ inputMessage' = value
  /\ last' = "onChange"
  /\ UNCHANGED <<messages, isLoading, showResumeModal, resumeSessionId, sessionId,
                 localStorage, mounted, now, sendInFlight, historyInFlight, origin,
                 answered, nSubmitted, activated, failedFetches, nFetches>>

\* as submitRejected, without the trim test
submitRejected_loadingOnly(text, loading) == loading

\* if (!inputMessage.trim() || isLoading) return;
submitRejected(text, loading) == Trim(text) = <<>> \/ loading

\* as submitTurn, without setIsLoading(true)
submitTurn_noFlag(text) ==
  /\ messages' = Append(messages, UserMessage(text, now))
  /\ inputMessage' = <<>>
  /\ UNCHANGED isLoading
  /\ sendInFlight' = sendInFlight \cup
       {[session_id |-> sessionId, message |-> text, n |-> nSubmitted + 1]}
  /\ origin' = Append(origin, [sid |-> sessionId, kind |-> "user"])
  /\ nSubmitted' = nSubmitted + 1

\* as submitTurn, sending the trimmed text
submitTurn_trimmed(text) ==
  /\ messages' = Append(messages, UserMessage(text, now))
  /\ inputMessage' = <<>>
  /\ isLoading' = TRUE
  /\ sendInFlight' = sendInFlight \cup
       {[session_id |-> sessionId, message |-> Trim(text), n |-> nSubmitted + 1]}
  /\ origin' = Append(origin, [sid |-> sessionId, kind |-> "user"])
  /\ nSubmitted' = nSubmitted + 1

\* handleSendMessage past its guard, up to the await
submitTurn(text) ==
  /\ messages' = Append(messages, UserMessage(text, now))
  /\ inputMessage' = <<>>
  /\ isLoading' = TRUE
  /\ sendInFlight' = sendInFlight \cup
       {[session_id |-> sessionId, message |-> text, n |-> nSubmitted + 1]}
  /\ origin' = Append(origin, [sid |-> sessionId, kind |-> "user"])
  /\ nSubmitted' = nSubmitted + 1

\* handleSendMessage: the submit event of the form
handleSendMessage ==
  /\ mounted
  /\ IF submitRejected(inputMessage, isLoading)
     THEN /\ last' = "handleSendMessage_rejected"
          /\ UNCHANGED <<messages, inputMessage, isLoading, sendInFlight, origin, nSubmitted>>
     ELSE /\ nSubmitted < MaxSends
          /\ submitTurn(inputMessage)
          /\ last' = "handleSendMessage_sent"
  /\ UNCHANGED <<showResumeModal, resumeSessionId, sessionId, localStorage, mounted,
                 now, historyInFlight, answered, activated, failedFetches, nFetches>>

\* as sendSucceeded, appending to the transcript captured when the handler was called
sendSucceeded_staleClosure(req, response) ==
  /\ messages' = Append(SubSeq(messages, 1, Len(messages) - 1), AssistantMessage(response, now))
  /\ origin' = Append(SubSeq(origin, 1, Len(origin) - 1), [sid |-> req.session_id, kind |-> "reply"])
  /\ sendInFlight' = sendInFlight \ {req}
  /\ last' = "send_replied"

\* the try branch after the await: the reply is appended
sendSucceeded(req, response) ==
  /\ messages' = Append(messages, AssistantMessage(response, now))
  /\ origin' = Append(origin, [sid |-> req.session_id, kind |-> "reply"])
  /\ sendInFlight' = sendInFlight \ {req}
  /\ last' = "send_replied"

\* as sendFailed, taking back the optimistic user message
sendFailed_rollback(req) ==
  /\ messages' = Append(SubSeq(messages, 1, Len(messages) - 1), ErrorMessage(now))
  /\ origin' = Append(SubSeq(origin, 1, Len(origin) - 1), [sid |-> req.session_id, kind |-> "error"])
  /\ sendInFlight' = sendInFlight \ {req}
  /\ last' = "send_failed"

\* as sendFailed, also stamping the last entry again
sendFailed_overwrites(req) ==
  /\ messages' = Append([messages EXCEPT ![Len(messages)].timestamp = now + 1],
                        ErrorMessage(now))
  /\ origin' = Append(origin, [sid |-> req.session_id, kind |-> "error"])
  /\ sendInFlight' = sendInFlight \ {req}
  /\ last' = "send_failed"

\* the catch branch: the apology is appended
sendFailed(req) ==
  /\ messages' = Append(messages, ErrorMessage(now))
  /\ origin' = Append(origin, [sid |-> req.session_id, kind |-> "error"])
  /\ sendInFlight' = sendInFlight \ {req}
  /\ last' = "send_failed"

\* as sendResolves, with setIsLoading(false) in the try block instead of finally
sendResolves_noFinally(req, outcome) ==
  /\ req \in sendInFlight
  /\ IF outcome.ok THEN sendSucceeded(req, outcome.data) ELSE sendFailed(req)
  /\ isLoading' = IF outcome.ok THEN FALSE ELSE isLoading
  /\ answered' = Append(answered, req.n)
  /\ UNCHANGED <<inputMessage, showResumeModal, resumeSessionId, sessionId, localStorage,
                 mounted, now, historyInFlight, nSubmitted, activated, failedFetches, nFetches>>

\* as sendResolves, storing the session id of the request when it resolves
sendResolves_persists(req, outcome) ==
  /\ req \in sendInFlight
  /\ IF outcome.ok THEN sendSucceeded(req, outcome.data) ELSE sendFailed(req)
  /\ isLoading' = FALSE
  /\ localStorage' = req.session_id
  /\ answered' = Append(answered, req.n)
  /\ UNCHANGED <<inputMessage, showResumeModal, resumeSessionId, sessionId,
                 mounted, now, historyInFlight, nSubmitted, activated, failedFetches, nFetches>>

\* handleSendMessage from the await on: request req resolves
sendResolves(req, outcome) ==
  /\ req \in sendInFlight
  /\ IF outcome.ok THEN sendSucceeded(req, outcome.data) ELSE sendFailed(req)
  /\ isLoading' = FALSE
  /\ answered' = Append(answered, req.n)
  /\ UNCHANGED <<inputMessage, showResumeModal, resumeSessionId, sessionId, localStorage,
                 mounted, now, historyInFlight, nSubmitted, activated, failedFetches, nFetches>>

Next ==
  \/ checkSavedSession
  \/ handleResumeSession
  \/ \E id \in historyInFlight, outcome \in HistoryOutcomes : resumeResolves(id, outcome)
  \/ \E confirmed \in BOOLEAN : handleStartNew(confirmed)
  \/ \E confirmed \in BOOLEAN : handleManualNewChat(confirmed)
  \/ \E value \in Texts : onChange(value)
  \/ handleSendMessage
  \/ \E req \in sendInFlight, outcome \in SendOutcomes : sendResolves(req, outcome)

Spec == Init /\ [][Next]_vars

\* a request that has been issued is eventually answered or fails
SendCompletes == \E req \in sendInFlight, outcome \in SendOutcomes : sendResolves(req, outcome)
HistoryCompletes ==
  \E id \in historyInFlight, outcome \in HistoryOutcomes : resumeResolves(id, outcome)

\* the program on a network that completes every request
FairSpec == Spec /\ WF_vars(SendCompletes) /\ WF_vars(HistoryCompletes)

\* ================================================================ claims

\* the transcript is exactly one welcome message
IsWelcomeOnly(msgs) ==
  /\ Len(msgs) = 1
  /\ msgs[1].role = "assistant"
  /\ msgs[1].content = WelcomeText
  /\ DOMAIN msgs[1] = {"role", "content", "timestamp"}

\* the history request came back with found = true and at least one message
HistoryUsable(outcome) ==
  /\ outcome.ok
  /\ outcome.data.found
  /\ "data" \in DOMAIN outcome.data
  /\ "messages" \in DOMAIN outcome.data.data
  /\ Len(outcome.data.data.messages) > 0

\* C1: every transcript entry was made for the active session id; a reply or
\* error entry of a send issued under an earlier session is never in the
\* transcript of the session that replaced it.
C1_TranscriptOfActiveSession ==
  \A i \in DOMAIN origin : origin[i].sid = sessionId

\* C2: while a send is in flight, no step changes the active session id or
\* the persisted slot.
C2_SessionFixedWhileSending ==
  [][sendInFlight # {} => (sessionId' = sessionId /\ localStorage' = localStorage)]_vars

\* C3: when the history request of the candidate comes back with found = true
\* and a non-empty list, the transcript becomes the returned messages with
\* normalized roles (same length, same order), the candidate becomes the
\* active and persisted id, and the prompt is hidden.
C3_ResumeRestores ==
  [][\A id \in historyInFlight, outcome \in HistoryOutcomes :
       (resumeResolves(id, outcome) /\ HistoryUsable(outcome)) =>
         LET h == outcome.data.data.messages IN
           /\ id = resumeSessionId
           /\ Len(messages') = Len(h)
           /\ \A i \in 1..Len(h) :
                /\ messages'[i].role = (IF h[i].role = "ai" THEN "assistant" ELSE h[i].role)
                /\ messages'[i].content = h[i].content
           /\ sessionId' = id
           /\ localStorage' = id
           /\ ~showResumeModal']_vars

C3_Witness ==
  /\ last = "resume_restored"
  /\ Len(messages) >= 2
  /\ messages[1].role = "assistant"
  /\ sessionId = resumeSessionId

\* C4: when the history request comes back with found = false, fails, or
\* carries no message, the transcript becomes one welcome message, the active
\* id is new and differs from the candidate, the persisted slot holds the new
\* id, and the candidate has never been the active id.
C4_ResumeFallsBack ==
  [][\A id \in historyInFlight, outcome \in HistoryOutcomes :
       (resumeResolves(id, outcome) /\ ~HistoryUsable(outcome)) =>
           /\ IsWelcomeOnly(messages')
           /\ sessionId' # NULL
           /\ sessionId' # id
           /\ sessionId' \notin activated
           /\ localStorage' = sessionId'
           /\ id \notin activated'
           /\ ~showResumeModal']_vars

C4_Witness ==
  /\ last = "resume_fallback"
  /\ IsWelcomeOnly(messages)
  /\ resumeSessionId \notin activated

\* the number of entries the session started with, and of replies since
SeedLength == Cardinality({i \in DOMAIN origin : origin[i].kind = "seed"})
CompletedTurns == Cardinality({i \in DOMAIN origin : origin[i].kind = "reply"})

\* a session in which only successful sends have happened, none in flight
OnlySuccessfulSends ==
  /\ sessionId # NULL
  /\ sendInFlight = {}
  /\ \A i \in DOMAIN origin : origin[i].sid = sessionId /\ origin[i].kind # "error"

\* C5 as stated: after N successful turns the transcript has 1 + 2N entries,
\* alternating user/assistant after the first entry, for fresh and resumed
\* sessions alike.
C5_OnePlusTwoN ==
  OnlySuccessfulSends =>
    /\ Len(messages) = 1 + 2 * CompletedTurns
    /\ \A k \in 1..(2 * CompletedTurns) :
         messages[1 + k].role = (IF k % 2 = 1 THEN "user" ELSE "assistant")

\* C5 amended: after N successful turns the transcript has L + 2N entries, L the
\* number of entries the session started with (1 when fresh, the length of
\* the restored history when resumed), alternating user/assistant from entry
\* L + 1 on.
C5_SeedPlusTwoN ==
  OnlySuccessfulSends =>
    /\ Len(messages) = SeedLength + 2 * CompletedTurns
    /\ \A k \in 1..(2 * CompletedTurns) :
         messages[SeedLength + k].role = (IF k % 2 = 1 THEN "user" ELSE "assistant")

C5_Witness ==
  /\ OnlySuccessfulSends
  /\ CompletedTurns = 2
  /\ SeedLength = 2
  /\ Len(messages) = 6

\* C6: at most one send is in flight, and the k-th entry appended in answer
\* to a send answers the k-th accepted submit.
C6_OneExchangeInOrder ==
  /\ Cardinality(sendInFlight) <= 1
  /\ \A k \in DOMAIN answered : answered[k] = k

C6_Witness ==
  /\ Len(answered) >= 2
  /\ Cardinality(activated) >= 2
  /\ last \in {"send_replied", "send_failed"}

\* C7: a failed send appends one assistant entry with the apology and
\* isError = true, keeps every earlier entry (the user message of the turn
\* included), issues no new request and leaves the session id alone.
C7_SendFailure ==
  [][\A req \in sendInFlight :
       sendResolves(req, HttpFailure) =>
         /\ Len(messages') = Len(messages) + 1
         /\ SubSeq(messages', 1, Len(messages)) = messages
         /\ messages'[Len(messages')].role = "assistant"
         /\ messages'[Len(messages')].content = ApologyText
         /\ "isError" \in DOMAIN messages'[Len(messages')]
         /\ messages'[Len(messages')].isError = TRUE
         /\ (req.session_id = sessionId =>
               /\ messages'[Len(messages)].role = "user"
               /\ messages'[Len(messages)].content = req.message)
         /\ sendInFlight' = sendInFlight \ {req}
         /\ nSubmitted' = nSubmitted
         /\ sessionId' = sessionId
         /\ localStorage' = localStorage]_vars

C7_Witness ==
  /\ last = "send_failed"
  /\ Len(messages) >= 3
  /\ messages[Len(messages) - 1].role = "user"
  /\ "isError" \in DOMAIN messages[Len(messages)]

\* C8: while a send is in flight a submit changes neither the transcript, the
\* input buffer, the in-flight flag nor the set of requests, and the
\* transcript length changes only in the step that resolves the exchange.
C8_RejectedSubmit ==
  [][(isLoading /\ sendInFlight # {}) =>
       /\ handleSendMessage =>
            UNCHANGED <<messages, inputMessage, isLoading, sendInFlight>>
       /\ Len(messages') # Len(messages) => sendInFlight' # sendInFlight]_vars

\* a step that runs startNewSession
StartsNewSession ==
  \/ checkSavedSession /\ localStorage = NULL
  \/ handleStartNew(TRUE)
  \/ handleManualNewChat(TRUE)
  \/ \E id \in historyInFlight, outcome \in HistoryOutcomes :
       resumeResolves(id, outcome) /\ ~HistoryUsable(outcome)

\* C9: every call of startNewSession, however many in a row, leaves one
\* welcome message, the prompt hidden, an active id never used before in the
\* run (nor stored before it), and the persisted slot equal to that id.
C9_StartNewSession ==
  [][StartsNewSession =>
       /\ IsWelcomeOnly(messages')
       /\ ~showResumeModal'
       /\ sessionId' # NULL
       /\ sessionId' \notin (activated \cup {resumeSessionId, localStorage})
       /\ localStorage' = sessionId']_vars

C9_Witness ==
  /\ last = "handleManualNewChat_confirmed"
  /\ Cardinality(activated) >= 3
  /\ nSubmitted = 0
  /\ IsWelcomeOnly(messages)

\* no session id was persisted when the page loaded
NoSavedId == IF mounted THEN resumeSessionId = NULL ELSE localStorage = NULL

\* C10: with nothing persisted at startup, checkSavedSession leaves one
\* welcome message and a new id, active and persisted, and the resume prompt
\* is not visible in any state of the run.
C10_StartupWithoutSavedId ==
  /\ [](NoSavedId => ~showResumeModal)
  /\ [][(checkSavedSession /\ localStorage = NULL) =>
          /\ IsWelcomeOnly(messages')
          /\ sessionId' # NULL
          /\ sessionId' \notin activated
          /\ localStorage' = sessionId']_vars

C10_Witness ==
  /\ NoSavedId
  /\ mounted
  /\ nSubmitted >= 1
  /\ sessionId = localStorage

\* C11: with an id persisted at startup, checkSavedSession only shows the
\* prompt and holds the id as candidate: the active id stays unset, the
\* transcript empty and the slot as it was, while the prompt is shown; and the
\* candidate becomes the active id only in the step of a resume whose history
\* request came back found with at least one message.
C11_CandidateHeld ==
  /\ [][(checkSavedSession /\ localStorage # NULL) =>
          /\ showResumeModal'
          /\ resumeSessionId' = localStorage
          /\ sessionId' = NULL
          /\ messages' = <<>>
          /\ localStorage' = localStorage]_vars
  /\ [](showResumeModal =>
          /\ sessionId = NULL
          /\ messages = <<>>
          /\ localStorage = resumeSessionId)
  /\ [][(sessionId' # sessionId /\ sessionId' = resumeSessionId') =>
          \E id \in historyInFlight, outcome \in HistoryOutcomes :
            resumeResolves(id, outcome) /\ HistoryUsable(outcome)]_vars

C11_Witness ==
  /\ last = "handleResumeSession"
  /\ showResumeModal
  /\ resumeSessionId # NULL
  /\ resumeSessionId = localStorage
  /\ sessionId = NULL
  /\ messages = <<>>

\* the startup decision (new session or resume) has finished
StartupDone ==
  /\ mounted
  /\ ~showResumeModal
  /\ historyInFlight = {}
  /\ sessionId # NULL

\* C12: no sendMessage request is issued before the startup decision has
\* finished, and every request carries the non-null active session id of the
\* moment it is issued.
C12_NoSendBeforeStartup ==
  /\ [](\A req \in sendInFlight : req.session_id # NULL)
  /\ [](sendInFlight # {} => mounted /\ ~showResumeModal /\ historyInFlight = {})
  /\ [][\A req \in sendInFlight' \ sendInFlight :
          /\ StartupDone
          /\ req.session_id = sessionId]_vars

C12_Witness ==
  /\ last = "handleSendMessage_sent"
  /\ resumeSessionId # NULL
  /\ \E req \in sendInFlight : req.session_id = sessionId /\ sessionId # NULL

\* C13: while the resume prompt is visible (awaiting the choice or resolving)
\* the input is disabled, the input buffer does not change and no request is
\* sent; the input is enabled only with the prompt hidden and no exchange in
\* flight.
C13_PromptDisablesInput ==
  /\ [](showResumeModal => inputDisabled)
  /\ [](~inputDisabled =>
          ~showResumeModal /\ sendInFlight = {} /\ historyInFlight = {})
  /\ [][showResumeModal =>
          inputMessage' = inputMessage /\ sendInFlight' = sendInFlight]_vars

C13_Witness ==
  /\ showResumeModal
  /\ historyInFlight # {}
  /\ last = "handleSendMessage_rejected"
  /\ inputDisabled

\* C14: every send that resolves clears the in-flight flag, whether it
\* succeeded or failed; the flag is not cleared while the request is still out;
\* and on a network that completes every request, a send in flight is
\* eventually followed by a state with no request out, the flag clear and the
\* input enabled.
C14_FlagCleared ==
  /\ [][\A req \in sendInFlight, outcome \in SendOutcomes :
          sendResolves(req, outcome) => ~isLoading']_vars
  /\ [][(isLoading /\ sendInFlight # {} /\ ~isLoading') =>
          sendInFlight' # sendInFlight]_vars
  /\ (sendInFlight # {}) ~> (sendInFlight = {} /\ ~isLoading /\ ~inputDisabled)

C14_Witness ==
  /\ last = "send_failed"
  /\ ~isLoading
  /\ sendInFlight = {}
  /\ ~inputDisabled
  /\ Len(answered) = 2

\* C15: a declined confirmation changes nothing: declined in handleStartNew,
\* the prompt stays visible and candidate, transcript, active id and slot are
\* as before; declined in handleManualNewChat, transcript, active id, slot and
\* in-flight flag are as before.
C15_DeclineIsNoOp ==
  /\ [][handleStartNew(FALSE) =>
          /\ showResumeModal'
          /\ UNCHANGED <<resumeSessionId, messages, sessionId, localStorage, isLoading,
                         inputMessage, sendInFlight, historyInFlight>>]_vars
  /\ [][handleManualNewChat(FALSE) =>
          UNCHANGED <<messages, sessionId, localStorage, isLoading, showResumeModal,
                      inputMessage, sendInFlight, historyInFlight>>]_vars

C15_Witness ==
  /\ last = "handleStartNew_declined"
  /\ showResumeModal
  /\ resumeSessionId = localStorage
  /\ sessionId = NULL
  /\ messages = <<>>

\* C16: getSessionHistory returns a value for every outcome of the GET, and
\* when the request failed that value is {found: false}; nothing is thrown to
\* the caller.
C16_HistoryFailureCaught ==
  /\ [](\A c \in failedFetches : ~c.threw /\ c.value = [found |-> FALSE])
  /\ [][\A id \in historyInFlight, outcome \in HistoryOutcomes :
          resumeResolves(id, outcome) =>
            /\ ~getSessionHistory(outcome).threw
            /\ "found" \in DOMAIN getSessionHistory(outcome).value]_vars

C16_Witness ==
  /\ failedFetches # {}
  /\ last = "resume_fallback"
  /\ historyInFlight = {}

\* a step that runs the found branch of handleResumeSession
RestoresSession ==
  \E id \in historyInFlight, outcome \in HistoryOutcomes :
    resumeResolves(id, outcome) /\ HistoryUsable(outcome)

\* C17: the persisted slot and the active id change only in a step that runs
\* startNewSession or the found branch of handleResumeSession: a submit
\* (accepted or rejected), a resolved send (reply or failure), checkSavedSession
\* finding a saved id, and a declined confirmation leave both as they were.
C17_SlotWriters ==
  /\ [][(localStorage' # localStorage \/ sessionId' # sessionId) =>
          (StartsNewSession \/ RestoresSession)]_vars
  /\ [][(\/ handleSendMessage
         \/ \E req \in sendInFlight, outcome \in SendOutcomes : sendResolves(req, outcome)
         \/ checkSavedSession /\ localStorage # NULL
         \/ handleStartNew(FALSE)
         \/ handleManualNewChat(FALSE)) =>
          UNCHANGED <<localStorage, sessionId>>]_vars

C17_Witness ==
  /\ last = "send_replied"
  /\ Cardinality(activated) >= 2
  /\ \E i \in DOMAIN origin : origin[i].sid # sessionId
  /\ localStorage = sessionId

\* the user can go on chatting: prompt hidden, a session active, nothing
\* pending, the input enabled and a non-blank submit accepted
CanChat ==
  /\ ~showResumeModal
  /\ sessionId # NULL
  /\ ~isLoading
  /\ ~inputDisabled
  /\ \A text \in Texts : Trim(text) # <<>> => ~submitRejected(text, isLoading)

\* C18: after a failed or empty history fetch and after a failed send the
\* user can go on chatting, and on a network that completes every request
\* each pending history fetch or send is eventually followed by such a state.
C18_NoFailureIsFatal ==
  /\ [](last \in {"resume_fallback", "resume_caught", "send_failed"} => CanChat)
  /\ (historyInFlight # {}) ~> CanChat
  /\ (sendInFlight # {}) ~> CanChat

C18_Witness ==
  /\ last = "resume_fallback"
  /\ failedFetches # {}
  /\ CanChat

\* C19: an accepted submit appends the user message with the submitted text as
\* typed, clears the input buffer, sets the in-flight flag and issues one
\* request, all in the step before the reply, the request carrying the active
\* session id and the very text of the appended message.
C19_AcceptedSubmit ==
  [][(handleSendMessage /\ Trim(inputMessage) # <<>> /\ ~isLoading) =>
       /\ Len(messages') = Len(messages) + 1
       /\ SubSeq(messages', 1, Len(messages)) = messages
       /\ messages'[Len(messages')].role = "user"
       /\ messages'[Len(messages')].content = inputMessage
       /\ inputMessage' = <<>>
       /\ isLoading'
       /\ Cardinality(sendInFlight' \ sendInFlight) = 1
       /\ \A req \in sendInFlight' \ sendInFlight :
            /\ req.session_id = sessionId
            /\ req.message = inputMessage
            /\ req.message = messages'[Len(messages')].content]_vars

C19_Witness ==
  /\ last = "handleSendMessage_sent"
  /\ isLoading
  /\ inputMessage = <<>>
  /\ messages[Len(messages)].role = "user"
  /\ \E req \in sendInFlight :
       /\ req.message = messages[Len(messages)].content
       /\ Head(req.message) \in Whitespace

\* C20: a successful reply appends one assistant message whose content, type
\* and isComplete are the reply's response, type and is_complete (undefined
\* when the reply has none) and which has no isError; whatever is_complete is,
\* session id, slot, prompt and input buffer stay as they were and the flag is
\* cleared.
C20_ReplyAppended ==
  [][\A req \in sendInFlight, reply \in Replies :
       sendResolves(req, [ok |-> TRUE, data |-> reply]) =>
         /\ Len(messages') = Len(messages) + 1
         /\ SubSeq(messages', 1, Len(messages)) = messages
         /\ messages'[Len(messages')].role = "assistant"
         /\ messages'[Len(messages')].content = reply.response
         /\ messages'[Len(messages')].type = reply.type
         /\ messages'[Len(messages')].isComplete = reply.is_complete
         /\ "isError" \notin DOMAIN messages'[Len(messages')]
         /\ sendInFlight' = sendInFlight \ {req}
         /\ ~isLoading'
         /\ UNCHANGED <<sessionId, localStorage, showResumeModal, inputMessage,
                        resumeSessionId, nSubmitted>>]_vars

C20_Witness ==
  /\ last = "send_replied"
  /\ messages[Len(messages)].isComplete = "true"
  /\ messages[Len(messages) - 1].role = "user"
  /\ ~inputDisabled

\* C21: a submit whose text is empty after trimming (empty or all whitespace)
\* issues no request, adds no user message and no error entry, leaves the
\* input buffer as typed and leaves the in-flight flag as it was, so a clear
\* flag stays clear.
C21_BlankSubmitRejected ==
  [][(handleSendMessage /\ Trim(inputMessage) = <<>>) =>
       /\ sendInFlight' = sendInFlight
       /\ nSubmitted' = nSubmitted
       /\ messages' = messages
       /\ inputMessage' = inputMessage
       /\ isLoading' = isLoading
       /\ (~isLoading => ~isLoading')]_vars

C21_Witness ==
  /\ last = "handleSendMessage_rejected"
  /\ inputMessage = <<" ">>
  /\ ~isLoading
  /\ ~showResumeModal
  /\ sessionId # NULL
  /\ sendInFlight = {}
  /\ IsWelcomeOnly(messages)

\* C22: a restore maps the role "ai" of a returned message to "assistant" and
\* keeps every other role as the server reported it; the content of each
\* message is carried over, and the restored transcript has the messages of
\* the returned history, as many and in the same order.
C22_RolesNormalized ==
  [][\A id \in historyInFlight, outcome \in HistoryOutcomes :
       (resumeResolves(id, outcome) /\ HistoryUsable(outcome)) =>
         LET h == outcome.data.data.messages IN
           /\ DOMAIN messages' = DOMAIN h
           /\ \A i \in DOMAIN h :
                /\ h[i].role = "ai" => messages'[i].role = "assistant"
                /\ h[i].role # "ai" => messages'[i].role = h[i].role
                /\ messages'[i].content = h[i].content]_vars

C22_Witness ==
  /\ last = "resume_restored"
  /\ Len(messages) = 2
  /\ messages[1].role = "system"
  /\ messages[2].role = "assistant"
  /\ messages[2].content = "h"

\* C23: within a session the transcript is append-only: a step that is neither
\* startNewSession nor a successful restore leaves the transcript as it was or
\* adds exactly one message at its end, every earlier entry staying in place
\* and unmodified.
C23_AppendOnly ==
  [][~(StartsNewSession \/ RestoresSession) =>
       \/ messages' = messages
       \/ /\ Len(messages') = Len(messages) + 1
          /\ SubSeq(messages', 1, Len(messages)) = messages]_vars

C23_Witness ==
  /\ last = "send_failed"
  /\ Cardinality(activated) = 1
  /\ Len(answered) = 2
  /\ Len(messages) = 5
  /\ IsWelcomeOnly(SubSeq(messages, 1, 1))
  /\ messages[2].role = "user"

\* C24: the startup decision is taken once per load: the saved id is read
\* only in the first step of the run and the candidate never changes after it,
\* at most one history request is ever issued, none is issued while one is
\* resolving, and once the prompt is hidden after startup it is never shown
\* again.
C24_StartupOnce ==
  /\ [](nFetches <= 1)
  /\ [](Cardinality(historyInFlight) <= 1)
  /\ [][(checkSavedSession \/ last' \in {"checkSavedSession_prompt", "checkSavedSession_new"})
          => last = "init"]_vars
  /\ [][mounted => resumeSessionId' = resumeSessionId]_vars
  /\ [][historyInFlight # {} => nFetches' = nFetches]_vars
  /\ [][(mounted /\ ~showResumeModal) => ~showResumeModal']_vars

C24_Witness ==
  /\ nFetches = 1
  /\ historyInFlight = {}
  /\ ~showResumeModal
  /\ last = "handleManualNewChat_confirmed"
  /\ resumeSessionId \in activated

\* the step of a confirmed manual reset leaves one welcome message and a new
\* id, active and persisted, whether or not a send is in flight
ManualResetTakesEffect ==
  [][handleManualNewChat(TRUE) =>
       /\ IsWelcomeOnly(messages')
       /\ sessionId' # NULL
       /\ sessionId' # sessionId
       /\ sessionId' \notin activated
       /\ localStorage' = sessionId']_vars

\* C25: a confirmed manual reset takes effect at once whatever the send state
\* (one welcome message, a new id active and persisted), and from then on
\* every entry added to the transcript belongs to a turn submitted under the
\* id that is active when it is added.
C25_ManualReset ==
  /\ ManualResetTakesEffect
  /\ [][(~(StartsNewSession \/ RestoresSession) /\ Len(messages') > Len(messages)) =>
          origin'[Len(origin')].sid = sessionId']_vars

\* C26: whenever the active session id is set the persisted slot holds that
\* id; the id is unset only at startup (before the load effect, or while the
\* prompt is shown), and then the slot is empty or holds the resume candidate.
C26_SlotIsActiveId ==
  /\ sessionId # NULL => localStorage = sessionId
  /\ sessionId = NULL =>
       /\ ~mounted \/ showResumeModal
       /\ ~mounted => localStorage \in {NULL} \cup SavedIds
       /\ mounted => localStorage # NULL /\ localStorage = resumeSessionId

C26_Witness ==
  /\ last = "send_replied"
  /\ nFetches = 1
  /\ sessionId # NULL
  /\ sessionId # resumeSessionId
  /\ localStorage = sessionId

\* the body has found = true and no data wrapper
Unwrapped(outcome) ==
  /\ outcome.ok
  /\ outcome.data.found
  /\ "data" \notin DOMAIN outcome.data

\* C27: a history response with found = true and no data wrapper (messages at
\* the top level, or none) makes the try block of handleResumeSession throw;
\* the throw is caught, so the resume ends like any failed one: one welcome
\* message under a new id that is active and persisted, the candidate never
\* activated, the prompt hidden and the in-flight flag clear.
C27_UnwrappedHistory ==
  [][\A id \in historyInFlight, outcome \in HistoryOutcomes :
       (resumeResolves(id, outcome) /\ Unwrapped(outcome)) =>
         /\ last' = "resume_caught"
         /\ IsWelcomeOnly(messages')
         /\ sessionId' \notin (activated \cup {NULL, id})
         /\ localStorage' = sessionId'
         /\ id \notin activated'
         /\ ~showResumeModal'
         /\ ~isLoading'
         /\ historyInFlight' = {}]_vars

C27_Witness ==
  /\ last = "resume_caught"
  /\ failedFetches = {}
  /\ IsWelcomeOnly(messages)
  /\ sessionId # NULL
  /\ resumeSessionId \notin activated
  /\ ~showResumeModal
  /\ ~isLoading

\* C28: startNewSession leaves the in-flight flag alone: a manual reset
\* confirmed while a send is in flight keeps the flag set and the request
\* pending, the input stays disabled for as long as a send is unresolved, and
\* in that time no user turn is accepted and the input buffer does not change,
\* so a send that never resolves blocks the new session for good.
C28_ResetKeepsFlag ==
  /\ [][(\/ handleManualNewChat(TRUE)
         \/ handleStartNew(TRUE)
         \/ checkSavedSession /\ localStorage = NULL) =>
          isLoading' = isLoading /\ sendInFlight' = sendInFlight]_vars
  /\ [](sendInFlight # {} => isLoading /\ inputDisabled)
  /\ [][sendInFlight # {} =>
          /\ nSubmitted' = nSubmitted
          /\ inputMessage' = inputMessage
          /\ (isLoading' = FALSE => sendInFlight' = {})]_vars

C28_Witness ==
  /\ last = "handleManualNewChat_confirmed"
  /\ IsWelcomeOnly(messages)
  /\ isLoading
  /\ inputDisabled
  /\ sendInFlight # {}
  /\ \A req \in sendInFlight : req.session_id # sessionId

====
